---- MODULE Spec2Model ----
(***************************************************************************)
(* A model of two storage-engine primitives of the tablet server:          *)
(*   - the sharded LRU cache of kudu/util/cache.cc, and                    *)
(*   - the in-memory row store of kudu/tablet/memrowset.cc.                *)
(* Every cache operation runs under its shard's mutex_, so each is one     *)
(* atomic action.                                                          *)
(***************************************************************************)
EXTENDS Integers, Sequences, FiniteSets, TLC

\* ------------------------------------------------------------------ bounds

\* Keys a caller may pass are 1..MaxKey.
MaxKey == 4
\* The capacity handed to NewLRUCache.
Capacity == 32
\* Charges a caller may pass are 1..MaxCharge.
MaxCharge == 3
\* Values a caller may pass are 1..MaxValue.
MaxValue == 2
\* Number of entries ever allocated by Insert (malloc calls).
MaxEntries == 3
\* Handles one caller population holds on one entry at the same time.
MaxHandles == 2

\* ------------------------------------------------------- program constants

kNumShardBits == 4
kNumShards == 2 ^ kNumShardBits

NULL == 0

Keys == 1..MaxKey
Charges == 1..MaxCharge
Values == 1..MaxValue
Shards == 0..(kNumShards - 1)

VARIABLES
  heap,        \* every LRUHandle ever malloc'ed, by address (index)
  lru,         \* per shard: the list behind lru_, oldest (lru_.next) first
  table,       \* per shard: table_, key -> handle or NULL
  elems,       \* per shard: table_.elems_
  usage,       \* per shard: usage_
  consumed,    \* mem_tracker_ consumption (one tracker for all shards)
  handles,     \* per entry: handles returned to callers and not yet released
  destroyed,   \* the ShardedLRUCache has been deleted
  dcheck,      \* a DCHECK of the code has failed (a debug build aborted there)
  recency      \* per shard: cached entries ordered by their last
               \* Insert or Lookup hit, oldest first (history)

cacheVars == <<heap, lru, table, elems, usage, consumed, handles, destroyed,
               dcheck, recency>>

VARIABLES
  tree,        \* tree_: the rows of the index, in key order
  lock,        \* per key: the thread whose PreparedMutation holds the position
  anchor,      \* anchorer_: the op_id anchored, NULL if none
  throttle_mb, \* FLAGS_memrowset_throttle_mb
  footprint,   \* what memory_footprint() returns, in bytes
  has_logged_throttling_,
  clock,       \* calls made so far
  pc,          \* per thread: where it is in its call
  op,          \* per thread: the arguments of its call
  stats,       \* per thread: stats->mrs_consulted of the call's ProbeStats
  result,      \* per thread: result->mutated_stores of the call
  results,     \* history: the calls that returned, with what they returned
  checks       \* CheckRowPresent calls made so far

mrsVars == <<tree, lock, anchor, throttle_mb, footprint,
             has_logged_throttling_, clock,
             pc, op, stats, result, results, checks>>

VARIABLES
  it_state,    \* the Iterator's state_; "none" while no Iterator exists
  it_pos,      \* iter_: the position of the index iterator, Len(tree) + 1 at
               \* the end
  it_snap,     \* mvcc_snap_: the timestamps committed in the snapshot
  it_upper,    \* upper_bound_, NULL if none
  it_spec,     \* the scan spec Init was given, as its greatest lower and
               \* least upper bound, NULL if none (history)
  it_rows,     \* the rows of the blocks NextBlock has filled so far (history)
  it_last      \* what the last call on the Iterator returned (history)

itVars == <<it_state, it_pos, it_snap, it_upper, it_spec, it_rows, it_last>>

\* ------------------------------------------------------------- sharding

\* Stand-in for CityHash64 truncated to 32 bits: a fixed function of the key.
\* Keys 1..3 fall into shard 0, keys 4..7 into shard 1, and so on.
HashSlice(k) == (k \div 4) * (2 ^ 28) + k * 7919

Shard(hash) == hash \div (2 ^ (32 - kNumShardBits))

\* ShardedLRUCache constructor: the capacity every shard gets.
per_shard == (Capacity + (kNumShards - 1)) \div kNumShards

\* --------------------------------------------------- the shard, functionally
\* A cache state S is the record of the variables the shard code writes.

CacheState ==
  [heap |-> heap, lru |-> lru, table |-> table, elems |-> elems,
   usage |-> usage, consumed |-> consumed, dcheck |-> dcheck]

Remove(seq, e) == SelectSeq(seq, LAMBDA x : x # e)

LRU_Remove(S, s, e) == [S EXCEPT !.lru[s] = Remove(@, e)]

LRU_Append(S, s, e) == [S EXCEPT !.lru[s] = Append(@, e)]

\* free(e) after the deleter ran: the memory is gone, only the address and the
\* count of the deleter's calls are kept.
Freed(h) ==
  [key |-> NULL, hash |-> 0, value |-> NULL, charge |-> 0, refs |-> 0,
   freed |-> TRUE, deleted |-> h.deleted + 1]

\* Mutant of Unref: frees the entry whatever its reference count.
UnrefIgnoresCount(S, s, e) ==
  LET h == S.heap[e]
  IN [S EXCEPT !.heap[e] = Freed(h),
               !.usage[s] = @ - h.charge,
               !.consumed = @ - h.charge]

\* Mutant of Unref: frees the entry without crediting the memory tracker.
UnrefKeepsTracker(S, s, e) ==
  LET h == S.heap[e]
      refs == h.refs - 1
  IN IF refs <= 0
       THEN [S EXCEPT !.heap[e] = Freed(h), !.usage[s] = @ - h.charge]
       ELSE [S EXCEPT !.heap[e].refs = refs]

Unref(S, s, e) ==
  LET h == S.heap[e]
      refs == h.refs - 1
      S1 == [S EXCEPT !.dcheck = @ \/ ~(h.refs > 0)]
  IN IF refs <= 0
       THEN [S1 EXCEPT !.heap[e] = Freed(h),
                       !.usage[s] = @ - h.charge,
                       !.consumed = @ - h.charge]
       ELSE [S1 EXCEPT !.heap[e].refs = refs]

\* HandleTable::Lookup: *FindPointer(key, hash).
TableLookup(S, s, key) == S.table[s][key]

\* HandleTable::Insert: the state after it; it returns TableLookup before it.
TableInsert(S, s, e) ==
  LET old == TableLookup(S, s, S.heap[e].key)
  IN [S EXCEPT !.table[s][S.heap[e].key] = e,
               !.elems[s] = IF old = NULL THEN @ + 1 ELSE @]

\* HandleTable::Remove: the state after it; it returns TableLookup before it.
TableRemove(S, s, key) ==
  LET removed == TableLookup(S, s, key)
  IN IF removed # NULL
       THEN [S EXCEPT !.table[s][key] = NULL, !.elems[s] = @ - 1]
       ELSE S

\* Mutant of EvictLoop: an evicted entry is freed at once, pinned or not.
RECURSIVE EvictLoopFreesPinned(_, _)
EvictLoopFreesPinned(S, s) ==
  IF S.usage[s] > per_shard /\ S.lru[s] # <<>>
    THEN LET old == Head(S.lru[s])
             S1 == LRU_Remove(S, s, old)
             S2 == TableRemove(S1, s, S1.heap[old].key)
         IN EvictLoopFreesPinned(
              [S2 EXCEPT !.heap[old] = Freed(S2.heap[old]),
                         !.usage[s] = @ - S2.heap[old].charge,
                         !.consumed = @ - S2.heap[old].charge], s)
    ELSE S

\* The eviction loop that ends LRUCache::Insert.
RECURSIVE EvictLoop(_, _)
EvictLoop(S, s) ==
  IF S.usage[s] > per_shard /\ S.lru[s] # <<>>
    THEN LET old == Head(S.lru[s])
             S1 == LRU_Remove(S, s, old)
             S2 == TableRemove(S1, s, S1.heap[old].key)
         IN EvictLoop(Unref(S2, s, old), s)
    ELSE S

\* LRUCache::Insert on shard s; the handle it returns is Len(S.heap) + 1.
LRUCacheInsert(S, s, key, hash, value, charge) ==
  LET e == Len(S.heap) + 1
      h == [key |-> key, hash |-> hash, value |-> value, charge |-> charge,
            refs |-> 2, freed |-> FALSE, deleted |-> 0]
      S1 == [S EXCEPT !.heap = Append(@, h), !.consumed = @ + charge]
      S2 == LRU_Append(S1, s, e)
      S3 == [S2 EXCEPT !.usage[s] = @ + charge]
      old == TableLookup(S3, s, key)
      S4 == TableInsert(S3, s, e)
      S5 == IF old # NULL THEN Unref(LRU_Remove(S4, s, old), s, old) ELSE S4
  IN EvictLoop(S5, s)

\* Mutant of LRUCacheLookup: a hit does not move the entry in the list.
LRUCacheLookupNoTouch(S, s, key) ==
  LET e == TableLookup(S, s, key)
  IN IF e # NULL THEN [S EXCEPT !.heap[e].refs = @ + 1] ELSE S

\* LRUCache::Lookup on shard s; it returns TableLookup(S, s, key).
LRUCacheLookup(S, s, key) ==
  LET e == TableLookup(S, s, key)
  IN IF e # NULL
       THEN LRU_Append(LRU_Remove([S EXCEPT !.heap[e].refs = @ + 1], s, e), s, e)
       ELSE S

LRUCacheRelease(S, s, e) == Unref(S, s, e)

LRUCacheErase(S, s, key) ==
  LET e == TableLookup(S, s, key)
      S1 == TableRemove(S, s, key)
  IN IF e # NULL THEN Unref(LRU_Remove(S1, s, e), s, e) ELSE S1

\* LRUCache::~LRUCache over the entries of the list, oldest first.
RECURSIVE DtorLoop(_, _, _)
DtorLoop(S, s, list) ==
  IF list = <<>>
    THEN S
    ELSE LET e == Head(list)
             S1 == [S EXCEPT !.dcheck = @ \/ ~(S.heap[e].refs = 1)]
         IN DtorLoop(Unref(S1, s, e), s, Tail(list))

\* ~LRUCache and then ~HandleTable: the shard's list and table are gone.
LRUCacheDtor(S, s) ==
  LET S1 == DtorLoop(S, s, S.lru[s])
  IN [S1 EXCEPT !.lru[s] = <<>>, !.table[s] = [k \in Keys |-> NULL],
                !.elems[s] = 0]

\* STLDeleteElements(&shards_): every shard is destroyed in turn.
RECURSIVE DeleteShards(_, _)
DeleteShards(S, s) ==
  IF s = kNumShards THEN S ELSE DeleteShards(LRUCacheDtor(S, s), s + 1)

\* ------------------------------------------------------------ the actions

Commit(S) ==
  /\ heap' = S.heap
  /\ lru' = S.lru
  /\ table' = S.table
  /\ elems' = S.elems
  /\ usage' = S.usage
  /\ consumed' = S.consumed
  /\ dcheck' = S.dcheck

\* Entry e is in shard s's table.
Cached(S, s, e) == \E k \in Keys : S.table[s][k] = e

\* The history: what is still cached in shard s, in order of last use, after
\* entry `used` (or none, NULL) was inserted or hit.
Recent(S, s, used) ==
  LET kept == SelectSeq(recency[s], LAMBDA x : x # used /\ Cached(S, s, x))
  IN IF used # NULL /\ Cached(S, s, used) THEN Append(kept, used) ELSE kept

InitCache ==
  /\ heap = <<>>
  /\ lru = [s \in Shards |-> <<>>]
  /\ table = [s \in Shards |-> [k \in Keys |-> NULL]]
  /\ elems = [s \in Shards |-> 0]
  /\ usage = [s \in Shards |-> 0]
  /\ consumed = 0
  /\ handles = [e \in 1..MaxEntries |-> 0]
  /\ destroyed = FALSE
  /\ dcheck = FALSE
  /\ recency = [s \in Shards |-> <<>>]

\* ShardedLRUCache::Insert; the caller keeps the returned handle.
Insert(key, value, charge) ==
  /\ ~destroyed
  /\ Len(heap) < MaxEntries
  /\ LET hash == HashSlice(key)
         s == Shard(hash)
         S == LRUCacheInsert(CacheState, s, key, hash, value, charge)
         e == Len(heap) + 1
     IN /\ Commit(S)
        /\ handles' = [handles EXCEPT ![e] = 1]
        /\ recency' = [recency EXCEPT ![s] = Recent(S, s, e)]
  /\ UNCHANGED <<destroyed, mrsVars, itVars>>

\* ShardedLRUCache::Lookup; on a hit the caller keeps the returned handle.
Lookup(key) ==
  /\ ~destroyed
  /\ LET hash == HashSlice(key)
         s == Shard(hash)
         e == TableLookup(CacheState, s, key)
         S == LRUCacheLookup(CacheState, s, key)
     IN /\ e # NULL => handles[e] < MaxHandles
        /\ Commit(S)
        /\ handles' = IF e # NULL THEN [handles EXCEPT ![e] = @ + 1]
                                  ELSE handles
        /\ recency' = [recency EXCEPT ![s] = Recent(S, s, e)]
  /\ UNCHANGED <<destroyed, mrsVars, itVars>>

\* ShardedLRUCache::Release of a handle the caller holds.
Release(e) ==
  /\ ~destroyed
  /\ handles[e] > 0
  /\ LET s == Shard(heap[e].hash)
         S == LRUCacheRelease(CacheState, s, e)
     IN /\ Commit(S)
        /\ recency' = [recency EXCEPT ![s] = Recent(S, s, NULL)]
  /\ handles' = [handles EXCEPT ![e] = @ - 1]
  /\ UNCHANGED <<destroyed, mrsVars, itVars>>

\* ShardedLRUCache::Erase.
Erase(key) ==
  /\ ~destroyed
  /\ LET hash == HashSlice(key)
         s == Shard(hash)
         S == LRUCacheErase(CacheState, s, key)
     IN /\ Commit(S)
        /\ recency' = [recency EXCEPT ![s] = Recent(S, s, NULL)]
  /\ UNCHANGED <<handles, destroyed, mrsVars, itVars>>

\* ShardedLRUCache::~ShardedLRUCache.
DeleteCache ==
  /\ ~destroyed
  /\ Commit(DeleteShards(CacheState, 0))
  /\ destroyed' = TRUE
  /\ recency' = [s \in Shards |-> <<>>]
  /\ UNCHANGED <<handles, mrsVars, itVars>>

NextCache ==
  \/ \E key \in Keys, value \in Values, charge \in Charges :
       Insert(key, value, charge)
  \/ \E key \in Keys : Lookup(key)
  \/ \E e \in 1..MaxEntries : Release(e)
  \/ \E key \in Keys : Erase(key)
  \/ DeleteCache


\* =====================================================================
\* The in-memory row store, kudu/tablet/memrowset.cc
\* =====================================================================

\* ------------------------------------------------------------------ bounds

\* Row keys are 1..MaxRowKey.
MaxRowKey == 2
\* Row bodies (the non-key columns of a row) are 1..MaxBody.
MaxBody == 2
\* Threads calling into the MemRowSet.
NumThreads == 2
\* Writer calls made in all; call n carries timestamp n.
MaxOps == 3
\* The op_id a caller passes is one of 1..MaxOpId.
MaxOpId == 2
\* CheckRowPresent calls made in all.
MaxChecks == 1
\* A scan spec holds up to MaxRanges encoded key ranges.
MaxRanges == 2
\* The row_capacity() of the block handed to NextBlock is one of
\* 0..MaxBlockRows.
MaxBlockRows == 2
\* FLAGS_memrowset_throttle_mb is one of 0..MaxThrottleMb.
MaxThrottleMb == 1

RowKeys == 1..MaxRowKey
Bodies == 1..MaxBody
Threads == 1..NumThreads
OpIds == 1..MaxOpId

\* What a caller passes to MutateRow as `delta`.
Deltas ==
  [type : {"UPDATE"}, body : Bodies] \cup [type : {"DELETE"}, body : {NULL}]

kInitialArenaSize == 1536 * 1024

\* The id the MemRowSet was constructed with.
id_ == "id_"


\* ------------------------------------- the index, the chain, the anchorer

\* btree::PreparedMutation::Prepare: the position of `key`, 0 if absent.
Prepare(T, key) ==
  IF \E i \in 1..Len(T) : T[i].key = key
    THEN CHOOSE i \in 1..Len(T) : T[i].key = key
    ELSE 0

\* btree::PreparedMutation::Insert: the row goes in at its place in key order.
TreeInsert(T, row) ==
  LET below == SelectSeq(T, LAMBDA r : r.key < row.key)
      rest == SelectSeq(T, LAMBDA r : ~(r.key < row.key))
  IN below \o <<row>> \o rest

\* Mutation::AppendToListAtomic: the node becomes the last of the chain.
AppendToListAtomic(redo_head, mut) == Append(redo_head, mut)

\* OpIdAnchorer::AnchorIfMinimum.
AnchorIfMinimum(a, op_id) == IF a = NULL \/ op_id < a THEN op_id ELSE a

\* MemRowSet::memory_footprint.
memory_footprint == footprint

\* MRSRow::IsGhost over the chain from `i` on, is_ghost so far.
RECURSIVE IsGhostFrom(_, _, _)
IsGhostFrom(redo_head, i, is_ghost) ==
  IF i > Len(redo_head)
    THEN is_ghost
    ELSE LET type == redo_head[i].changelist.type
         IN IsGhostFrom(redo_head, i + 1,
                        IF type = "DELETE" THEN TRUE
                        ELSE IF type = "REINSERT" THEN FALSE
                        ELSE is_ghost)

\* The DCHECKs of MRSRow::IsGhost over the chain from `i` on: TRUE when none
\* of them fails (a debug build aborts where one does).
RECURSIVE IsGhostDChecks(_, _, _)
IsGhostDChecks(redo_head, i, is_ghost) ==
  IF i > Len(redo_head)
    THEN TRUE
    ELSE LET type == redo_head[i].changelist.type
         IN IF type = "DELETE"
              THEN ~is_ghost /\ IsGhostDChecks(redo_head, i + 1, TRUE)
              ELSE IF type = "REINSERT"
                THEN is_ghost /\ IsGhostDChecks(redo_head, i + 1, FALSE)
                ELSE IsGhostDChecks(redo_head, i + 1, is_ghost)

\* Mutant of IsGhost: the DELETE branch is missing, no row is ever a ghost.
IsGhostMissesDelete(row) == FALSE

IsGhost(row) == IsGhostFrom(row.redo_head, 1, FALSE)

\* The greatest value of the int32 flag.
kint32max == 2147483647

\* Bytes in a MiB.
MiB == 1024 * 1024

\* `FLAGS_memrowset_throttle_mb * 1024 * 1024`, a product of ints, as the MiB
\* it comes to (the product is a whole number of MiB, and its bytes do not
\* fit the integers of the checker). Below 2^31 bytes the product is exact.
\* From 2^31 bytes on it overflows the int, which is undefined: the build
\* either wraps it to 32 bits or, having widened the product for the
\* subtraction from a size_t, keeps it exact.
Int32Product(flag) ==
  LET low == flag % 4096
      wrapped == IF low >= 2048 THEN low - 4096 ELSE low
  IN IF -2048 <= flag /\ flag < 2048 THEN {flag} ELSE {wrapped, flag}

\* MemRowSet::SlowMutators with the product come to `threshold_mb` MiB: the
\* microseconds slept, -1 when it does not sleep. over_mem is a 64-bit
\* ssize_t; where its bytes do not fit the integers of the checker (a negative
\* threshold), `over_mem / 1024 / 512` is taken from the halves of a MiB.
SlowMutatorsOver(flag, threshold_mb) ==
  IF flag = 0
    THEN -1
    ELSE LET whole == memory_footprint \div MiB
             over_mem_positive ==
               \/ whole > threshold_mb
               \/ whole = threshold_mb /\ memory_footprint % MiB > 0
         IN IF ~over_mem_positive
              THEN -1
              ELSE IF threshold_mb >= 0
                THEN LET over_mem ==
                           memory_footprint - threshold_mb * 1024 * 1024
                     IN (over_mem \div 1024) \div 512
                ELSE (memory_footprint \div (512 * 1024)) - 2 * threshold_mb

\* MemRowSet::SlowMutators under a flag whose product does not overflow, as
\* the writers' calls run it.
SlowMutators(flag) == SlowMutatorsOver(flag, flag)

\* ------------------------------------------------------------ the actions

NoOp == [kind |-> "none"]

InitMRS ==
  /\ tree = <<>>
  /\ lock = [k \in RowKeys |-> NULL]
  /\ anchor = NULL
  /\ throttle_mb = 0
  /\ footprint = kInitialArenaSize
  /\ has_logged_throttling_ = FALSE
  /\ clock = 0
  /\ pc = [t \in Threads |-> "idle"]
  /\ op = [t \in Threads |-> NoOp]
  /\ stats = [t \in Threads |-> 0]
  /\ result = [t \in Threads |-> <<>>]
  /\ results = {}
  /\ checks = 0

\* A writer's call begins: call n carries timestamp n, and fresh
\* out-parameters. The scans modelled are those made while no writer is in a
\* call, so no call begins while an Iterator exists.
Call(t, o) ==
  /\ clock < MaxOps
  /\ pc[t] = "idle"
  /\ it_state = "none"
  /\ op' = [op EXCEPT ![t] = o]
  /\ clock' = clock + 1

\* Thread t's call returns `s`; what the caller got is kept as history
\* (`present` is the out-parameter of CheckRowPresent, NULL for the writers).
ReturnWith(t, s, mrs_consulted, mutated_stores, sleeps, present) ==
  /\ results' = results \cup {[op |-> op[t], status |-> s,
                               mrs_consulted |-> mrs_consulted,
                               mutated_stores |-> mutated_stores,
                               slept |-> sleeps,
                               present |-> present]}
  /\ pc' = [pc EXCEPT ![t] = "idle"]
  /\ op' = [op EXCEPT ![t] = NoOp]
  /\ stats' = [stats EXCEPT ![t] = 0]
  /\ result' = [result EXCEPT ![t] = <<>>]

Return(t, s, mrs_consulted, mutated_stores, sleeps) ==
  ReturnWith(t, s, mrs_consulted, mutated_stores, sleeps, NULL)

\* SlowMutators as thread t runs it: the sleeps of the call, each with the
\* positions the thread holds meanwhile.
Sleeps(t) ==
  LET us_to_sleep == SlowMutators(throttle_mb)
  IN IF us_to_sleep >= 0
       THEN <<[us |-> us_to_sleep, holding |-> {k \in RowKeys : lock[k] = t}]>>
       ELSE <<>>

\* DEFINE_int32(memrowset_throttle_mb, 0, ...): the flag is 0 unless the
\* process is started with another value, before any call is made.
SetThrottleFlag(mb) ==
  /\ clock = 0
  /\ throttle_mb = 0
  /\ throttle_mb' = mb
  /\ UNCHANGED <<itVars, cacheVars, footprint, checks, tree, lock, anchor, has_logged_throttling_, clock,
                 pc, op, stats, result, results>>

\* MemRowSet::Insert up to mutation.Prepare(&tree_): the thread waits until
\* the position of the key is free and then holds it.
InsertPrepare(t, key, body, op_id) ==
  /\ Call(t, [kind |-> "insert", key |-> key, body |-> body,
              timestamp |-> clock + 1, op_id |-> op_id])
  /\ lock[key] = NULL
  /\ lock' = [lock EXCEPT ![key] = t]
  /\ pc' = [pc EXCEPT ![t] = "InsertCheck"]
  /\ UNCHANGED <<itVars, cacheVars, footprint, checks, tree, anchor, throttle_mb,
                 has_logged_throttling_, stats, result, results>>

\* Mutant of Reinsert: the re-inserted row becomes a second entry of the index.
ReinsertAddsEntry(T, i, timestamp, body) ==
  TreeInsert(T, [key |-> T[i].key, insertion_timestamp |-> timestamp,
                 body |-> body, redo_head |-> <<>>])

\* MemRowSet::Reinsert: the tree after it.
Reinsert(T, i, timestamp, body) ==
  LET mut == [timestamp |-> timestamp,
              changelist |-> [type |-> "REINSERT", body |-> body]]
  IN [T EXCEPT ![i].redo_head = AppendToListAtomic(@, mut)]

\* Mutant of InsertCheck: the op_id is anchored before the key is looked up,
\* so an insert that returns AlreadyPresent has anchored too.
InsertCheckAnchorsFirst(t) ==
  /\ pc[t] = "InsertCheck"
  /\ LET i == Prepare(tree, op[t].key)
     IN \/ /\ i # 0
           /\ ~IsGhost(tree[i])
           /\ UNCHANGED tree
           /\ anchor' = AnchorIfMinimum(anchor, op[t].op_id)
           /\ lock' = [lock EXCEPT ![op[t].key] = NULL]
           /\ Return(t, "AlreadyPresent", stats[t], result[t], <<>>)
        \/ /\ i # 0
           /\ IsGhost(tree[i])
           /\ tree' = Reinsert(tree, i, op[t].timestamp, op[t].body)
           /\ UNCHANGED anchor
           /\ lock' = [lock EXCEPT ![op[t].key] = NULL]
           /\ Return(t, "OK", stats[t], result[t], <<>>)
        \/ /\ i = 0
           /\ tree' = TreeInsert(tree,
                        [key |-> op[t].key,
                         insertion_timestamp |-> op[t].timestamp,
                         body |-> op[t].body,
                         redo_head |-> <<>>])
           /\ UNCHANGED anchor
           /\ pc' = [pc EXCEPT ![t] = "InsertAnchor"]
           /\ UNCHANGED <<lock, op, stats, result, results>>
  /\ UNCHANGED <<itVars, cacheVars, footprint, checks, throttle_mb,
                 has_logged_throttling_, clock>>

\* MemRowSet::Insert from mutation.exists() to mutation.Insert(): the key is
\* live (AlreadyPresent), a ghost (Reinsert, and return), or absent. A return
\* runs ~PreparedMutation.
InsertCheck(t) ==
  /\ pc[t] = "InsertCheck"
  /\ LET i == Prepare(tree, op[t].key)
     IN \/ /\ i # 0
           /\ ~IsGhost(tree[i])
           /\ UNCHANGED tree
           /\ lock' = [lock EXCEPT ![op[t].key] = NULL]
           /\ Return(t, "AlreadyPresent", stats[t], result[t], <<>>)
        \/ /\ i # 0
           /\ IsGhost(tree[i])
           /\ tree' = Reinsert(tree, i, op[t].timestamp, op[t].body)
           /\ lock' = [lock EXCEPT ![op[t].key] = NULL]
           /\ Return(t, "OK", stats[t], result[t], <<>>)
        \/ /\ i = 0
           /\ tree' = TreeInsert(tree,
                        [key |-> op[t].key,
                         insertion_timestamp |-> op[t].timestamp,
                         body |-> op[t].body,
                         redo_head |-> <<>>])
           /\ pc' = [pc EXCEPT ![t] = "InsertAnchor"]
           /\ UNCHANGED <<lock, op, stats, result, results>>
  /\ UNCHANGED <<itVars, cacheVars, footprint, checks, anchor, throttle_mb, has_logged_throttling_,
                 clock>>

\* MemRowSet::Insert: anchorer_.AnchorIfMinimum(op_id).
InsertAnchor(t) ==
  /\ pc[t] = "InsertAnchor"
  /\ anchor' = AnchorIfMinimum(anchor, op[t].op_id)
  /\ pc' = [pc EXCEPT ![t] = "InsertSlowMutators"]
  /\ UNCHANGED <<itVars, cacheVars, footprint, checks, tree, lock, throttle_mb, has_logged_throttling_,
                 clock, op, stats, result, results>>

\* MemRowSet::Insert: SlowMutators(), then the return, which runs
\* ~PreparedMutation.
InsertSlowMutators(t) ==
  /\ pc[t] = "InsertSlowMutators"
  /\ has_logged_throttling_' = (has_logged_throttling_ \/ Sleeps(t) # <<>>)
  /\ lock' = [lock EXCEPT ![op[t].key] = NULL]
  /\ Return(t, "OK", stats[t], result[t], Sleeps(t))
  /\ UNCHANGED <<itVars, cacheVars, footprint, checks, tree, anchor, throttle_mb, clock>>

\* MemRowSet::MutateRow up to mutation.Prepare(&tree_).
MutatePrepare(t, key, delta, op_id) ==
  /\ Call(t, [kind |-> "mutate", key |-> key, delta |-> delta,
              timestamp |-> clock + 1, op_id |-> op_id])
  /\ lock[key] = NULL
  /\ lock' = [lock EXCEPT ![key] = t]
  /\ pc' = [pc EXCEPT ![t] = "MutateCheck"]
  /\ UNCHANGED <<itVars, cacheVars, footprint, checks, tree, anchor, throttle_mb,
                 has_logged_throttling_, stats, result, results>>

\* Mutant of MutateCheck: the node is stored as the head of the chain, the
\* nodes appended before it are lost.
MutateCheckOverwritesHead(t) ==
  /\ pc[t] = "MutateCheck"
  /\ LET i == Prepare(tree, op[t].key)
     IN \/ /\ i = 0
           /\ Return(t, "NotFound", stats[t], result[t], <<>>)
           /\ UNCHANGED tree
        \/ /\ i # 0
           /\ IsGhost(tree[i])
           /\ Return(t, "NotFound", stats[t], result[t], <<>>)
           /\ UNCHANGED tree
        \/ /\ i # 0
           /\ ~IsGhost(tree[i])
           /\ LET mut == [timestamp |-> op[t].timestamp,
                          changelist |-> op[t].delta]
              IN tree' = [tree EXCEPT ![i].redo_head = <<mut>>]
           /\ result' = [result EXCEPT ![t] = Append(@, id_)]
           /\ pc' = [pc EXCEPT ![t] = "MutateAnchor"]
           /\ UNCHANGED <<op, stats, results>>
  /\ lock' = [lock EXCEPT ![op[t].key] = NULL]
  /\ UNCHANGED <<itVars, cacheVars, footprint, checks, anchor, throttle_mb,
                 has_logged_throttling_, clock>>

\* Mutant of MutateCheck: the row.IsGhost() test is missing, a ghost is
\* mutated like a live row.
MutateCheckSkipsGhost(t) ==
  /\ pc[t] = "MutateCheck"
  /\ LET i == Prepare(tree, op[t].key)
     IN \/ /\ i = 0
           /\ Return(t, "NotFound", stats[t], result[t], <<>>)
           /\ UNCHANGED tree
        \/ /\ i # 0
           /\ LET mut == [timestamp |-> op[t].timestamp,
                          changelist |-> op[t].delta]
              IN tree' = [tree EXCEPT
                            ![i].redo_head = AppendToListAtomic(@, mut)]
           /\ result' = [result EXCEPT ![t] = Append(@, id_)]
           /\ pc' = [pc EXCEPT ![t] = "MutateAnchor"]
           /\ UNCHANGED <<op, stats, results>>
  /\ lock' = [lock EXCEPT ![op[t].key] = NULL]
  /\ UNCHANGED <<itVars, cacheVars, footprint, checks, anchor, throttle_mb, has_logged_throttling_,
                 clock>>

\* MemRowSet::MutateRow, the block that holds the PreparedMutation: NotFound
\* for an absent key or a ghost, else the mutation is appended and the store
\* recorded; the block's end (and a return) runs ~PreparedMutation.
MutateCheck(t) ==
  /\ pc[t] = "MutateCheck"
  /\ LET i == Prepare(tree, op[t].key)
     IN \/ /\ i = 0
           /\ Return(t, "NotFound", stats[t], result[t], <<>>)
           /\ UNCHANGED tree
        \/ /\ i # 0
           /\ IsGhost(tree[i])
           /\ Return(t, "NotFound", stats[t], result[t], <<>>)
           /\ UNCHANGED tree
        \/ /\ i # 0
           /\ ~IsGhost(tree[i])
           /\ LET mut == [timestamp |-> op[t].timestamp,
                          changelist |-> op[t].delta]
              IN tree' = [tree EXCEPT
                            ![i].redo_head = AppendToListAtomic(@, mut)]
           /\ result' = [result EXCEPT ![t] = Append(@, id_)]
           /\ pc' = [pc EXCEPT ![t] = "MutateAnchor"]
           /\ UNCHANGED <<op, stats, results>>
  /\ lock' = [lock EXCEPT ![op[t].key] = NULL]
  /\ UNCHANGED <<itVars, cacheVars, footprint, checks, anchor, throttle_mb, has_logged_throttling_,
                 clock>>

\* Mutant of MutateAnchor: stats->mrs_consulted is left alone.
MutateAnchorSkipsStats(t) ==
  /\ pc[t] = "MutateAnchor"
  /\ anchor' = AnchorIfMinimum(anchor, op[t].op_id)
  /\ pc' = [pc EXCEPT ![t] = "MutateSlowMutators"]
  /\ UNCHANGED <<itVars, cacheVars, footprint, checks, tree, lock, throttle_mb, has_logged_throttling_,
                 clock, op, stats, result, results>>

\* MemRowSet::MutateRow: stats->mrs_consulted++ and the anchor.
MutateAnchor(t) ==
  /\ pc[t] = "MutateAnchor"
  /\ stats' = [stats EXCEPT ![t] = @ + 1]
  /\ anchor' = AnchorIfMinimum(anchor, op[t].op_id)
  /\ pc' = [pc EXCEPT ![t] = "MutateSlowMutators"]
  /\ UNCHANGED <<itVars, cacheVars, footprint, checks, tree, lock, throttle_mb, has_logged_throttling_,
                 clock, op, result, results>>

\* MemRowSet::MutateRow: SlowMutators(), then the return.
MutateSlowMutators(t) ==
  /\ pc[t] = "MutateSlowMutators"
  /\ has_logged_throttling_' = (has_logged_throttling_ \/ Sleeps(t) # <<>>)
  /\ Return(t, "OK", stats[t], result[t], Sleeps(t))
  /\ UNCHANGED <<itVars, cacheVars, footprint, checks, tree, lock, anchor, throttle_mb, clock>>

\* MemRowSet::CheckRowPresent up to mutation.Prepare: stats->mrs_consulted++
\* and then the wait for the position of the key. (`seen` is history: the
\* writers' calls begun before this one.)
CheckRowPresentPrepare(t, key) ==
  /\ pc[t] = "idle"
  /\ it_state = "none"
  /\ checks < MaxChecks
  /\ checks' = checks + 1
  /\ op' = [op EXCEPT ![t] = [kind |-> "check", key |-> key, seen |-> clock]]
  /\ stats' = [stats EXCEPT ![t] = @ + 1]
  /\ lock[key] = NULL
  /\ lock' = [lock EXCEPT ![key] = t]
  /\ pc' = [pc EXCEPT ![t] = "CheckRowPresent"]
  /\ UNCHANGED <<itVars, cacheVars, footprint, tree, anchor, throttle_mb,
                 has_logged_throttling_, clock, result, results>>

\* Mutant of CheckRowPresent: the ghost test is missing, a key is present
\* whenever it has an entry.
CheckRowPresentIgnoresGhost(t) ==
  /\ pc[t] = "CheckRowPresent"
  /\ LET i == Prepare(tree, op[t].key)
     IN ReturnWith(t, "OK", stats[t], result[t], <<>>, i # 0)
  /\ lock' = [lock EXCEPT ![op[t].key] = NULL]
  /\ UNCHANGED <<itVars, cacheVars, footprint, tree, anchor, throttle_mb,
                 has_logged_throttling_, clock, checks>>

\* MemRowSet::CheckRowPresent from mutation.exists() on; the return runs
\* ~PreparedMutation.
CheckRowPresent(t) ==
  /\ pc[t] = "CheckRowPresent"
  /\ LET i == Prepare(tree, op[t].key)
         present == IF i = 0 THEN FALSE ELSE ~IsGhost(tree[i])
     IN ReturnWith(t, "OK", stats[t], result[t], <<>>, present)
  /\ lock' = [lock EXCEPT ![op[t].key] = NULL]
  /\ UNCHANGED <<itVars, cacheVars, footprint, tree, anchor, throttle_mb,
                 has_logged_throttling_, clock, checks>>

\* ------------------------------------------------- SlowMutators by itself

\* The values of the flag looked at: none, small ones, a negative one, the
\* ones around the first product that does not fit an int, and the greatest.
Flags == {-1, 0, 1, 2, 3, 2047, 2048, 2049, 4095, 4096, 4097, kint32max}

\* The footprints looked at, in bytes: around the half MiB the sleep is
\* counted in, and around the thresholds of the flags below 2048.
Footprints ==
  {0, 1, 512 * 1024 - 1, 512 * 1024, MiB - 1, MiB, MiB + 1,
   kInitialArenaSize, 2 * MiB, 2 * MiB + 1, 3 * MiB + 512 * 1024,
   2047 * MiB - 1, 2047 * MiB, 2047 * MiB + 1}

\* A MemRowSet under any flag and with any footprint, no call made.
InitSlowMutators ==
  /\ tree = <<>>
  /\ lock = [k \in RowKeys |-> NULL]
  /\ anchor = NULL
  /\ throttle_mb \in Flags
  /\ footprint \in Footprints
  /\ has_logged_throttling_ = FALSE
  /\ clock = 0
  /\ pc = [t \in Threads |-> "idle"]
  /\ op = [t \in Threads |-> NoOp]
  /\ stats = [t \in Threads |-> 0]
  /\ result = [t \in Threads |-> <<>>]
  /\ results = {}
  /\ checks = 0

\* MemRowSet::SlowMutators run once by itself, holding nothing; what it did
\* is kept as history.
SlowMutatorsCall ==
  /\ \A t \in Threads : pc[t] = "idle"
  /\ \E threshold_mb \in Int32Product(throttle_mb) :
       LET us_to_sleep == SlowMutatorsOver(throttle_mb, threshold_mb)
           sleeps == IF us_to_sleep >= 0
                       THEN <<[us |-> us_to_sleep, holding |-> {}]>>
                       ELSE <<>>
       IN /\ has_logged_throttling_' = (has_logged_throttling_ \/ sleeps # <<>>)
          /\ results' = results \cup
               {[op |-> [kind |-> "SlowMutators", flag |-> throttle_mb,
                         footprint |-> footprint],
                 status |-> "OK", mrs_consulted |-> 0, mutated_stores |-> <<>>,
                 slept |-> sleeps, present |-> NULL]}
  /\ UNCHANGED <<itVars, cacheVars, footprint, checks, tree, lock, anchor,
                 throttle_mb, clock, pc, op, stats, result>>

\* ------------------------------------------------------------ the Iterator

\* MvccSnapshot::IsCommitted: a snapshot is the set of its committed
\* timestamps.
IsCommitted(snap, timestamp) == timestamp \in snap

\* MvccSnapshot::CreateSnapshotIncludingAllTransactions.
CreateSnapshotIncludingAllTransactions == 1..MaxOps

Snapshots == SUBSET (1..MaxOps)

\* The encoded keys a scan spec may name as a bound: the row keys and one key
\* above them all.
BoundKeys == 1..(MaxRowKey + 1)

\* An EncodedKeyRange: has_lower_bound() is lower # NULL, has_upper_bound()
\* is upper # NULL.
EncodedKeyRange == [lower : BoundKeys \cup {NULL}, upper : BoundKeys \cup {NULL}]

\* spec->encoded_ranges(); a NULL spec and a spec without ranges are <<>>.
EncodedRanges == UNION {[1..n -> EncodedKeyRange] : n \in 0..MaxRanges}

\* MSBTIter::SeekAtOrAfter: the position of the first key >= `key`,
\* Len(T) + 1 (not valid) if there is none.
SeekAtOrAfter(T, key) ==
  IF \E i \in 1..Len(T) : T[i].key >= key
    THEN CHOOSE i \in 1..Len(T) :
           /\ T[i].key >= key
           /\ \A j \in 1..(i - 1) : T[j].key < key
    ELSE Len(T) + 1

IsValid(T, pos) == pos <= Len(T)

\* Iterator::out_of_bounds.
out_of_bounds(key, upper_bound) == key >= upper_bound

\* Mutant of InitLoop: the bounds of a range are taken without comparing them
\* with the bounds taken before, the last range wins.
RECURSIVE InitLoopLastRangeWins(_, _, _, _)
InitLoopLastRangeWins(T, ranges, i, it) ==
  IF i > Len(ranges) \/ it.finished
    THEN it
    ELSE LET range == ranges[i]
             seeks == range.lower # NULL
             pos == SeekAtOrAfter(T, range.lower)
             it1 == IF ~seeks THEN it
                    ELSE IF ~IsValid(T, pos)
                      THEN [it EXCEPT !.pos = pos, !.finished = TRUE]
                      ELSE [it EXCEPT !.pos = pos,
                                      !.max_lower_bound = range.lower]
             it2 == IF ~it1.finished /\ range.upper # NULL
                      THEN [it1 EXCEPT !.upper_bound = range.upper]
                      ELSE it1
         IN InitLoopLastRangeWins(T, ranges, i + 1, it2)

\* The BOOST_FOREACH of Iterator::Init from range i on; `it` holds iter_,
\* max_lower_bound, upper_bound_ and whether Init has returned with kFinished.
RECURSIVE InitLoop(_, _, _, _)
InitLoop(T, ranges, i, it) ==
  IF i > Len(ranges) \/ it.finished
    THEN it
    ELSE LET range == ranges[i]
             seeks == /\ range.lower # NULL
                      /\ \/ it.max_lower_bound = NULL
                         \/ range.lower > it.max_lower_bound
             pos == SeekAtOrAfter(T, range.lower)
             it1 == IF ~seeks THEN it
                    ELSE IF ~IsValid(T, pos)
                      THEN [it EXCEPT !.pos = pos, !.finished = TRUE]
                      ELSE [it EXCEPT !.pos = pos,
                                      !.max_lower_bound = range.lower]
             it2 == IF /\ ~it1.finished
                       /\ range.upper # NULL
                       /\ \/ it1.upper_bound = NULL
                          \/ range.upper < it1.upper_bound
                      THEN [it1 EXCEPT !.upper_bound = range.upper]
                      ELSE it1
         IN InitLoop(T, ranges, i + 1, it2)

\* MemRowSet::Iterator::ApplyMutationsToProjectedRow: the mutations committed
\* in the snapshot are replayed in chain order from node n on. The change list
\* of an UPDATE or a REINSERT sets the row's body.
RECURSIVE ApplyMutationsToProjectedRow(_, _, _, _)
ApplyMutationsToProjectedRow(redo_head, n, snap, dst_row) ==
  IF n > Len(redo_head)
    THEN dst_row
    ELSE LET mut == redo_head[n]
             type == mut.changelist.type
             next ==
               IF ~IsCommitted(snap, mut.timestamp) THEN dst_row
               ELSE IF type = "DELETE"
                 THEN [dst_row EXCEPT !.selected = FALSE]
               ELSE IF type = "REINSERT"
                 THEN [dst_row EXCEPT !.selected = TRUE,
                                      !.body = mut.changelist.body]
               ELSE [dst_row EXCEPT !.body = mut.changelist.body]
         IN ApplyMutationsToProjectedRow(redo_head, n + 1, snap, next)

\* A row of the block the selection vector marks unselected before anything
\* was copied into it: its data is not looked at.
UnselectedRow == [key |-> NULL, body |-> NULL, selected |-> FALSE]

\* Mutant of FetchRows: the insertion timestamp is not looked at, a row is
\* projected whether or not the snapshot holds its insert.
RECURSIVE FetchRowsIgnoresInsertion(_, _, _, _, _, _)
FetchRowsIgnoresInsertion(T, pos, snap, upper_bound, nrows, rows) ==
  LET row == T[pos]
      dst_row ==
        ApplyMutationsToProjectedRow(row.redo_head, 1, snap,
          [key |-> row.key, body |-> row.body, selected |-> TRUE])
      fetched == Append(rows, dst_row)
  IN IF upper_bound # NULL /\ out_of_bounds(row.key, upper_bound)
       THEN [rows |-> rows, pos |-> pos, finished |-> TRUE]
       ELSE IF IsValid(T, pos + 1) /\ Len(fetched) < nrows
         THEN FetchRowsIgnoresInsertion(T, pos + 1, snap, upper_bound, nrows,
                                        fetched)
         ELSE [rows |-> fetched, pos |-> pos + 1, finished |-> FALSE]

\* Mutant of FetchRows: a full block makes iter_ move on twice, the entry
\* after the block's last is passed over.
RECURSIVE FetchRowsSkipsAfterBlock(_, _, _, _, _, _)
FetchRowsSkipsAfterBlock(T, pos, snap, upper_bound, nrows, rows) ==
  LET row == T[pos]
      committed == IsCommitted(snap, row.insertion_timestamp)
      dst_row ==
        IF committed
          THEN ApplyMutationsToProjectedRow(row.redo_head, 1, snap,
                 [key |-> row.key, body |-> row.body, selected |-> TRUE])
          ELSE UnselectedRow
      fetched == Append(rows, dst_row)
  IN IF committed /\ upper_bound # NULL /\ out_of_bounds(row.key, upper_bound)
       THEN [rows |-> rows, pos |-> pos, finished |-> TRUE]
       ELSE IF IsValid(T, pos + 1) /\ Len(fetched) < nrows
         THEN FetchRowsSkipsAfterBlock(T, pos + 1, snap, upper_bound, nrows,
                                       fetched)
         ELSE [rows |-> fetched,
               pos |-> IF IsValid(T, pos + 1) THEN pos + 2 ELSE pos + 1,
               finished |-> FALSE]

\* Mutant of FetchRows: no mutation is replayed on the projected row.
RECURSIVE FetchRowsSkipsReplay(_, _, _, _, _, _)
FetchRowsSkipsReplay(T, pos, snap, upper_bound, nrows, rows) ==
  LET row == T[pos]
      committed == IsCommitted(snap, row.insertion_timestamp)
      dst_row ==
        IF committed
          THEN [key |-> row.key, body |-> row.body, selected |-> TRUE]
          ELSE UnselectedRow
      fetched == Append(rows, dst_row)
  IN IF committed /\ upper_bound # NULL /\ out_of_bounds(row.key, upper_bound)
       THEN [rows |-> rows, pos |-> pos, finished |-> TRUE]
       ELSE IF IsValid(T, pos + 1) /\ Len(fetched) < nrows
         THEN FetchRowsSkipsReplay(T, pos + 1, snap, upper_bound, nrows,
                                   fetched)
         ELSE [rows |-> fetched, pos |-> pos + 1, finished |-> FALSE]

\* MemRowSet::Iterator::FetchRows, the do-while from the entry at `pos` on:
\* the rows fetched, where iter_ stands after it and whether state_ became
\* kFinished. iter_->Next() moves on and tells whether an entry is left.
RECURSIVE FetchRows(_, _, _, _, _, _)
FetchRows(T, pos, snap, upper_bound, nrows, rows) ==
  LET row == T[pos]
      committed == IsCommitted(snap, row.insertion_timestamp)
      dst_row ==
        IF committed
          THEN ApplyMutationsToProjectedRow(row.redo_head, 1, snap,
                 [key |-> row.key, body |-> row.body, selected |-> TRUE])
          ELSE UnselectedRow
      fetched == Append(rows, dst_row)
  IN IF committed /\ upper_bound # NULL /\ out_of_bounds(row.key, upper_bound)
       THEN [rows |-> rows, pos |-> pos, finished |-> TRUE]
       ELSE IF IsValid(T, pos + 1) /\ Len(fetched) < nrows
         THEN FetchRows(T, pos + 1, snap, upper_bound, nrows, fetched)
         ELSE [rows |-> fetched, pos |-> pos + 1, finished |-> FALSE]

NoCall == [call |-> "none", status |-> "none", nrows |-> 0]

NoBounds == [lower |-> NULL, upper |-> NULL]

\* What a scan spec asks for: the greatest of the lower bounds and the least
\* of the upper bounds its ranges have.
BoundsOf(ranges) ==
  LET lowers == {ranges[i].lower : i \in 1..Len(ranges)} \ {NULL}
      uppers == {ranges[i].upper : i \in 1..Len(ranges)} \ {NULL}
  IN [lower |-> IF lowers = {} THEN NULL
                ELSE CHOOSE b \in lowers : \A c \in lowers : c <= b,
      upper |-> IF uppers = {} THEN NULL
                ELSE CHOOSE b \in uppers : \A c \in uppers : b <= c]

InitIterator ==
  /\ it_state = "none"
  /\ it_pos = 0
  /\ it_snap = {}
  /\ it_upper = NULL
  /\ it_spec = NoBounds
  /\ it_rows = <<>>
  /\ it_last = NoCall

\* MemRowSet::NewIterator(projection, snap) while no writer is in a call; the
\* Iterator's constructor puts iter_ at the start of the index.
NewIterator(snap) ==
  /\ it_state = "none"
  /\ \A t \in Threads : pc[t] = "idle"
  /\ it_state' = "kUninitialized"
  /\ it_pos' = 1
  /\ it_snap' = snap
  /\ UNCHANGED <<it_upper, it_spec, it_rows, it_last, cacheVars, mrsVars>>

\* MemRowSet::Iterator::Init.
IteratorInit(ranges) ==
  /\ it_state = "kUninitialized"
  /\ LET it == InitLoop(tree, ranges, 1,
                        [pos |-> it_pos, max_lower_bound |-> NULL,
                         upper_bound |-> it_upper, finished |-> FALSE])
     IN /\ it_state' = IF it.finished THEN "kFinished" ELSE "kScanning"
        /\ it_pos' = IF ~it.finished /\ it.max_lower_bound # NULL
                       THEN SeekAtOrAfter(tree, it.max_lower_bound)
                       ELSE it.pos
        /\ it_upper' = it.upper_bound
  /\ it_spec' = BoundsOf(ranges)
  /\ it_last' = [call |-> "Init", status |-> "OK", nrows |-> 0]
  /\ UNCHANGED <<it_snap, it_rows, cacheVars, mrsVars>>

\* Mutant of NextBlock: state_ is looked at before iter_->IsValid(), so a
\* finished Iterator whose iter_ is invalid returns OK.
NextBlockLooksAtStateFirst(nrows) ==
  /\ it_state \in {"kScanning", "kFinished"}
  /\ IF it_state # "kScanning"
       THEN /\ it_last' = [call |-> "NextBlock", status |-> "OK",
                           nrows |-> 0]
            /\ UNCHANGED <<it_state, it_pos, it_rows>>
       ELSE IF ~IsValid(tree, it_pos)
         THEN /\ it_last' = [call |-> "NextBlock", status |-> "NotFound",
                             nrows |-> 0]
              /\ UNCHANGED <<it_state, it_pos, it_rows>>
       ELSE IF nrows = 0
         THEN /\ it_last' = [call |-> "NextBlock", status |-> "OK",
                             nrows |-> 0]
              /\ UNCHANGED <<it_state, it_pos, it_rows>>
       ELSE LET f == FetchRows(tree, it_pos, it_snap, it_upper, nrows, <<>>)
            IN /\ it_state' = IF f.finished THEN "kFinished" ELSE it_state
               /\ it_pos' = f.pos
               /\ it_rows' = it_rows \o f.rows
               /\ it_last' = [call |-> "NextBlock", status |-> "OK",
                              nrows |-> Len(f.rows)]
  /\ UNCHANGED <<it_snap, it_upper, it_spec, cacheVars, mrsVars>>

\* MemRowSet::Iterator::NextBlock into a block of row_capacity() nrows.
NextBlock(nrows) ==
  /\ it_state \in {"kScanning", "kFinished"}
  /\ IF ~IsValid(tree, it_pos)
       THEN /\ it_last' = [call |-> "NextBlock", status |-> "NotFound",
                           nrows |-> 0]
            /\ UNCHANGED <<it_state, it_pos, it_rows>>
       ELSE IF it_state # "kScanning"
         THEN /\ it_last' = [call |-> "NextBlock", status |-> "OK",
                             nrows |-> 0]
              /\ UNCHANGED <<it_state, it_pos, it_rows>>
       ELSE IF nrows = 0
         THEN /\ it_last' = [call |-> "NextBlock", status |-> "OK",
                             nrows |-> 0]
              /\ UNCHANGED <<it_state, it_pos, it_rows>>
       ELSE LET f == FetchRows(tree, it_pos, it_snap, it_upper, nrows, <<>>)
            IN /\ it_state' = IF f.finished THEN "kFinished" ELSE it_state
               /\ it_pos' = f.pos
               /\ it_rows' = it_rows \o f.rows
               /\ it_last' = [call |-> "NextBlock", status |-> "OK",
                              nrows |-> Len(f.rows)]
  /\ UNCHANGED <<it_snap, it_upper, it_spec, cacheVars, mrsVars>>

\* The Iterator is deleted.
DeleteIterator ==
  /\ it_state # "none"
  /\ it_state' = "none"
  /\ it_pos' = 0
  /\ it_snap' = {}
  /\ it_upper' = NULL
  /\ it_spec' = NoBounds
  /\ it_rows' = <<>>
  /\ it_last' = NoCall
  /\ UNCHANGED <<cacheVars, mrsVars>>

NextMRS ==
  \/ \E mb \in 1..MaxThrottleMb : SetThrottleFlag(mb)
  \/ \E t \in Threads, key \in RowKeys, body \in Bodies, op_id \in OpIds :
       InsertPrepare(t, key, body, op_id)
  \/ \E t \in Threads : InsertCheck(t)
  \/ \E t \in Threads : InsertAnchor(t)
  \/ \E t \in Threads : InsertSlowMutators(t)
  \/ \E t \in Threads, key \in RowKeys, delta \in Deltas, op_id \in OpIds :
       MutatePrepare(t, key, delta, op_id)
  \/ \E t \in Threads : MutateCheck(t)
  \/ \E t \in Threads : MutateAnchor(t)
  \/ \E t \in Threads : MutateSlowMutators(t)

NextCheck ==
  \/ \E t \in Threads, key \in RowKeys : CheckRowPresentPrepare(t, key)
  \/ \E t \in Threads : CheckRowPresent(t)

NextIterator ==
  \/ \E snap \in Snapshots : NewIterator(snap)
  \/ \E ranges \in EncodedRanges : IteratorInit(ranges)
  \/ \E nrows \in 0..MaxBlockRows : NextBlock(nrows)
  \/ DeleteIterator

\* MemRowSet::NewIterator(): the scan of everything, as DebugDump makes it.
NextFullScan ==
  \/ NewIterator(CreateSnapshotIncludingAllTransactions)
  \/ IteratorInit(<<>>)
  \/ \E nrows \in 0..MaxBlockRows : NextBlock(nrows)
  \/ DeleteIterator

\* The writers' calls made one after the other by one thread.
NextOneWriter ==
  \/ \E key \in RowKeys, body \in Bodies : InsertPrepare(1, key, body, 1)
  \/ InsertCheck(1)
  \/ InsertAnchor(1)
  \/ InsertSlowMutators(1)
  \/ \E key \in RowKeys, delta \in Deltas : MutatePrepare(1, key, delta, 1)
  \/ MutateCheck(1)
  \/ MutateAnchor(1)
  \/ MutateSlowMutators(1)

\* ------------------------------------------------------ the specifications

Init == InitCache /\ InitMRS /\ InitIterator

vars == <<cacheVars, mrsVars, itVars>>

Next == NextCache \/ NextMRS \/ NextCheck \/ NextIterator \/ SlowMutatorsCall

Spec == Init /\ [][Next]_vars

\* The cache alone, and the writers of the row store alone.
SpecCache == Init /\ [][NextCache]_vars

SpecMRS == Init /\ [][NextMRS]_vars

\* The writers of the row store and CheckRowPresent.
SpecCheck == Init /\ [][NextMRS \/ NextCheck]_vars

\* The writers of the row store and the scan of everything.
SpecFullScan == Init /\ [][NextMRS \/ NextFullScan]_vars

\* One writer and the scans of any snapshot and key ranges.
SpecScan == Init /\ [][NextOneWriter \/ NextIterator]_vars

\* SlowMutators by itself, under every flag and footprint looked at.
InitAnyFlag == InitCache /\ InitSlowMutators /\ InitIterator

SpecSlowMutators == InitAnyFlag /\ [][SlowMutatorsCall]_vars

\* One writer, CheckRowPresent and the scan of everything.
SpecReinsert == Init /\ [][NextOneWriter \/ NextCheck \/ NextFullScan]_vars

\* ------------------------------------------------------- the cache's claims

RECURSIVE SumCharge(_, _)
SumCharge(H, list) ==
  IF list = <<>> THEN 0 ELSE H[Head(list)].charge + SumCharge(H, Tail(list))

RECURSIVE SumUsage(_)
SumUsage(s) == IF s = kNumShards THEN 0 ELSE usage[s] + SumUsage(s + 1)

Allocated == 1..Len(heap)

\* The charges of the entries malloc'ed and not yet freed.
LiveCharge ==
  SumCharge(heap, SelectSeq([e \in Allocated |-> e], LAMBDA e : ~heap[e].freed))

InTable(e) == \E s \in Shards : Cached(CacheState, s, e)

InList(e) == \E s \in Shards : \E i \in 1..Len(lru[s]) : lru[s][i] = e

\* The references held on entry e: the cache's, if it keeps e, and the callers'.
Holders(e) == handles[e] + (IF InTable(e) \/ InList(e) THEN 1 ELSE 0)

\* A step of Insert: the only one that allocates an entry.
InsertStep == Len(heap') = Len(heap) + 1

IsSuffix(a, b) ==
  \E n \in 0..Len(b) : a = SubSeq(b, n + 1, Len(b))

\* C1: whenever an Insert whose own charge is at most the shard's capacity
\* returns, the shard's usage is at most the capacity, also while callers hold
\* unreleased handles. (Usage grows in Insert only, so with unit charges this
\* is the bound usage <= max(C, last charge) after every prefix.)
C1_UsageWithinCapacityAfterInsert ==
  [][InsertStep /\ heap'[Len(heap')].charge <= per_shard
       => usage'[Shard(heap'[Len(heap')].hash)] <= per_shard]_vars

\* C2: an Insert never evicts the entry it has just inserted: a Lookup of the
\* key right after Insert(key, value, charge) returns hits the new entry, with
\* the inserted value, whatever the charge and whatever is pinned.
C2_LookupAfterInsertHits ==
  [][InsertStep
       => LET e == Len(heap')
              found == table'[Shard(heap'[e].hash)][heap'[e].key]
          IN found # NULL /\ heap'[found].value = heap'[e].value]_vars

\* C3: the deleter of an entry runs at most once, never while the cache or a
\* caller holds a reference to the entry, and it has run (once, the tracker
\* credited with the charge) as soon as no reference is left.
C3_DeleterOnceAtLastUnref ==
  /\ \A e \in Allocated :
       /\ heap[e].deleted <= 1
       /\ heap[e].deleted = 1 <=> heap[e].freed
       /\ heap[e].deleted = 1 <=> Holders(e) = 0
  /\ consumed = LiveCharge

C3_Witness ==
  /\ destroyed
  /\ \E e \in Allocated : heap[e].deleted = 1
  /\ \E e \in Allocated : handles[e] > 0 /\ ~heap[e].freed

\* C4: an entry with an unreleased handle is never freed, and its key and
\* value do not change while the handle is held, whatever Insert (eviction,
\* replacement of the same key), Lookup, Erase and Release do meanwhile.
C4_HandleStaysValid ==
  /\ [](\A e \in Allocated : handles[e] > 0 => ~heap[e].freed)
  /\ [][\A e \in Allocated :
          handles[e] > 0 /\ handles'[e] > 0
            => /\ heap'[e].value = heap[e].value
               /\ heap'[e].key = heap[e].key
               /\ heap'[e].charge = heap[e].charge]_vars

C4_Witness ==
  /\ ~destroyed
  /\ \E e \in Allocated :
       /\ handles[e] > 0
       /\ ~InTable(e)
       /\ ~heap[e].freed
       /\ table[Shard(heap[e].hash)][heap[e].key] # NULL

\* C5: the list is in order of last use (an Insert or a Lookup hit makes the
\* entry the newest), and the entries an Insert evicts are the oldest ones:
\* what stays is a suffix of the list (the new entry appended, a replaced
\* entry of the same key taken out).
C5_EvictsLeastRecentlyUsed ==
  /\ [](\A s \in Shards : lru[s] = recency[s])
  /\ [][InsertStep
          => LET e == Len(heap')
                 s == Shard(heap'[e].hash)
                 old == table[s][heap'[e].key]
             IN IsSuffix(lru'[s], Remove(Append(lru[s], e), old))]_vars

\* Entry 2 was evicted although entry 1 was inserted before it: entry 1 was
\* looked up since.
C5_Witness ==
  /\ ~destroyed
  /\ lru[0] = <<1, 3>>
  /\ heap[2].freed
  /\ heap[1].key # heap[3].key
  /\ usage[0] = per_shard

\* C6: a shard's usage is the sum of the charges of the entries it holds, the
\* entries in its table and list.
C6_UsageIsChargeOfCachedEntries ==
  ~destroyed => \A s \in Shards : usage[s] = SumCharge(heap, lru[s])

\* C7: the tracker's consumption is the sum of the charges of the live
\* entries, which is the sum of the shards' usage counters.
C7_TrackerMatchesLiveCharges ==
  /\ consumed = LiveCharge
  /\ consumed = SumUsage(0)

C7_Witness ==
  /\ \E s1 \in Shards, s2 \in Shards : s1 # s2 /\ usage[s1] > 0 /\ usage[s2] > 0
  /\ \E e \in Allocated : heap[e].freed
  /\ \E e \in Allocated : ~heap[e].freed /\ ~InTable(e)

\* --------------------------------------------------- the row store's claims

\* The row of key k, as a set (empty when the key is absent).
RowsOf(T, k) == {i \in 1..Len(T) : T[i].key = k}

\* Replaying the chain ends live: its last DELETE or REINSERT, if any, is a
\* REINSERT.
EndsLive(chain) ==
  LET marks == {i \in 1..Len(chain) :
                  chain[i].changelist.type \in {"DELETE", "REINSERT"}}
  IN \/ marks = {}
     \/ \E i \in marks :
          /\ \A j \in marks : j <= i
          /\ chain[i].changelist.type = "REINSERT"

CountType(chain, type) ==
  Cardinality({i \in 1..Len(chain) : chain[i].changelist.type = type})

\* The record of a call that returned in this step.
Returned(t, s) ==
  \E r \in results' \ results : r.op = op[t] /\ r.status = s

\* Inserts of key k that succeeded: returned OK, or past the index change.
InsertsDone(k) ==
  Cardinality({r \in results :
                 r.op.kind = "insert" /\ r.op.key = k /\ r.status = "OK"})
  + Cardinality({t \in Threads :
                   /\ pc[t] \in {"InsertAnchor", "InsertSlowMutators"}
                   /\ op[t].key = k})

\* C8: at the moment an insert holds the prepared position, it returns
\* AlreadyPresent if and only if the key is in the index and its chain ends
\* live; it appends a REINSERT for a ghost and adds a row for an absent key,
\* and then returns OK. So the inserts of a key succeed once for the row and
\* once for every REINSERT of its chain: of the inserts of an absent key,
\* one, and every other one returns AlreadyPresent.
C8_AlreadyPresentIffLive ==
  /\ [][\A t \in Threads :
          pc[t] = "InsertCheck" /\ pc'[t] # "InsertCheck"
            => LET k == op[t].key
                   rows == RowsOf(tree, k)
                   live == \E i \in rows : EndsLive(tree[i].redo_head)
               IN /\ Returned(t, "AlreadyPresent") <=> live
                  /\ live => tree' = tree
                  /\ rows # {} /\ ~live
                       => /\ Returned(t, "OK")
                          /\ \E i \in rows :
                               tree' = [tree EXCEPT ![i].redo_head =
                                 Append(@, [timestamp |-> op[t].timestamp,
                                            changelist |->
                                              [type |-> "REINSERT",
                                               body |-> op[t].body]])]
                  /\ rows = {}
                       => /\ pc'[t] = "InsertAnchor"
                          /\ Len(tree') = Len(tree) + 1
                          /\ \E i \in RowsOf(tree', k) :
                               tree'[i] =
                                 [key |-> k,
                                  insertion_timestamp |-> op[t].timestamp,
                                  body |-> op[t].body,
                                  redo_head |-> <<>>]]_vars
  /\ [][\A t \in Threads :
          pc[t] = "InsertSlowMutators" /\ pc'[t] # "InsertSlowMutators"
            => Returned(t, "OK")]_vars
  /\ [](\A k \in RowKeys :
          /\ InsertsDone(k) =
               IF RowsOf(tree, k) = {} THEN 0
               ELSE 1 + CountType(tree[CHOOSE i \in RowsOf(tree, k) : TRUE]
                                    .redo_head, "REINSERT")
          /\ \A r \in results :
               r.op.kind = "insert" => r.status \in {"OK", "AlreadyPresent"})

\* Two inserts of one key have returned, one OK and one AlreadyPresent.
C8_Witness ==
  \E k \in RowKeys :
    /\ \E r \in results :
         r.op.kind = "insert" /\ r.op.key = k /\ r.status = "AlreadyPresent"
    /\ \E r \in results :
         r.op.kind = "insert" /\ r.op.key = k /\ r.status = "OK"

\* C9: mutate_row returns NotFound exactly when the key is absent or a
\* ghost; otherwise it appends one node with its timestamp and change list at
\* the end of the row's chain and returns OK, with the store's id recorded in
\* the result and stats.mrs_consulted raised by one.
C9_MutateRowNotFoundOrAppends ==
  /\ [][\A t \in Threads :
          pc[t] = "MutateCheck" /\ pc'[t] # "MutateCheck"
            => LET k == op[t].key
                   rows == RowsOf(tree, k)
                   live == \E i \in rows : EndsLive(tree[i].redo_head)
               IN /\ Returned(t, "NotFound") <=> ~live
                  /\ ~live => tree' = tree
                  /\ live
                       => /\ pc'[t] = "MutateAnchor"
                          /\ \E i \in rows :
                               tree' = [tree EXCEPT ![i].redo_head =
                                 Append(@, [timestamp |-> op[t].timestamp,
                                            changelist |-> op[t].delta])]]_vars
  /\ [][\A t \in Threads :
          pc[t] = "MutateSlowMutators" /\ pc'[t] # "MutateSlowMutators"
            => \E r \in results' \ results :
                 /\ r.op = op[t]
                 /\ r.status = "OK"
                 /\ r.mrs_consulted = 1
                 /\ r.mutated_stores = <<id_>>]_vars
  /\ [](\A r \in results :
          r.op.kind = "mutate"
            => /\ r.status \in {"OK", "NotFound"}
               /\ r.status = "OK"
                    => \E i \in RowsOf(tree, r.op.key) :
                         Cardinality(
                           {j \in 1..Len(tree[i].redo_head) :
                              tree[i].redo_head[j] =
                                [timestamp |-> r.op.timestamp,
                                 changelist |-> r.op.delta]}) = 1)

\* An UPDATE and a DELETE of one key returned OK, and a mutation of a ghost or
\* absent key returned NotFound.
C9_Witness ==
  /\ \E r \in results :
       r.op.kind = "mutate" /\ r.status = "OK" /\ r.op.delta.type = "DELETE"
  /\ \E r \in results : r.op.kind = "mutate" /\ r.status = "NotFound"

IsPrefix(a, b) == Len(a) <= Len(b) /\ a = SubSeq(b, 1, Len(a))

\* C10: the index holds one entry per key at most, in key order, and no step
\* removes a key or touches a row's body or insertion timestamp: a step adds
\* one row of a new key, or appends one node to one chain (a DELETE for a
\* delete, a REINSERT for the insert of a ghost key), or leaves the index.
C10_KeysUniqueAndOnlyGrow ==
  /\ [](\A i \in 1..Len(tree), j \in 1..Len(tree) :
          i < j => tree[i].key < tree[j].key)
  /\ [][\A i \in 1..Len(tree) :
          \E j \in 1..Len(tree') :
            /\ tree'[j].key = tree[i].key
            /\ tree'[j].body = tree[i].body
            /\ tree'[j].insertion_timestamp = tree[i].insertion_timestamp
            /\ IsPrefix(tree[i].redo_head, tree'[j].redo_head)]_vars
  /\ [][\A t \in Threads :
          /\ pc[t] = "InsertCheck" /\ pc'[t] # "InsertCheck"
          /\ RowsOf(tree, op[t].key) # {}
          /\ tree' # tree
          => /\ Len(tree') = Len(tree)
             /\ \E i \in RowsOf(tree, op[t].key) :
                  /\ Len(tree'[i].redo_head) = Len(tree[i].redo_head) + 1
                  /\ tree'[i].redo_head[Len(tree'[i].redo_head)]
                       .changelist.type = "REINSERT"]_vars
  /\ [][\A t \in Threads :
          /\ pc[t] = "MutateCheck" /\ pc'[t] # "MutateCheck"
          /\ op[t].delta.type = "DELETE"
          => /\ Len(tree') = Len(tree)
             /\ \A i \in 1..Len(tree) :
                  \/ tree'[i] = tree[i]
                  \/ tree'[i].redo_head =
                       Append(tree[i].redo_head,
                              [timestamp |-> op[t].timestamp,
                               changelist |-> op[t].delta])]_vars

\* A row that was deleted and then re-inserted with another body: one entry,
\* its first body kept.
C10_Witness ==
  \E i \in 1..Len(tree) :
    /\ Len(tree[i].redo_head) = 2
    /\ tree[i].redo_head[1].changelist.type = "DELETE"
    /\ tree[i].redo_head[2].changelist.type = "REINSERT"
    /\ tree[i].redo_head[2].changelist.body # tree[i].body

\* The chain is well formed up to node n: the state before a DELETE is live
\* and the state before a REINSERT is a ghost.
WellFormed(chain) ==
  \A n \in 1..Len(chain) :
    LET type == chain[n].changelist.type
        live == EndsLive(SubSeq(chain, 1, n - 1))
    IN /\ type = "DELETE" => live
       /\ type = "REINSERT" => ~live

\* C11: under any interleaving of inserts and mutate_row calls (UPDATE or
\* DELETE change lists), every chain is well formed: a DELETE follows a live
\* state only and a REINSERT a ghost state only, so no DCHECK of IsGhost fails
\* on any row, and UPDATEs are the only nodes a chain holds besides.
C11_ChainWellFormed ==
  \A i \in 1..Len(tree) :
    /\ WellFormed(tree[i].redo_head)
    /\ IsGhostDChecks(tree[i].redo_head, 1, FALSE)
    /\ \A n \in 1..Len(tree[i].redo_head) :
         tree[i].redo_head[n].changelist.type
           \in {"UPDATE", "DELETE", "REINSERT"}

\* Two deletes of one live row overlap: one has appended its DELETE and is
\* still in its call, the other, begun later, has returned NotFound.
C11_Witness ==
  \E t \in Threads, r \in results :
    /\ pc[t] \in {"MutateAnchor", "MutateSlowMutators"}
    /\ op[t].delta.type = "DELETE"
    /\ r.op.kind = "mutate"
    /\ r.op.key = op[t].key
    /\ r.op.delta.type = "DELETE"
    /\ r.status = "NotFound"
    /\ r.op.timestamp > op[t].timestamp
    /\ \E i \in RowsOf(tree, r.op.key) :
         CountType(tree[i].redo_head, "DELETE") = 1

\* No call is in progress.
Quiescent == \A t \in Threads : pc[t] = "idle"

\* The op_ids of the inserts and mutate_row calls that returned OK.
SucceededOpIds ==
  {r.op.op_id : r \in {x \in results :
                         x.op.kind \in {"insert", "mutate"} /\ x.status = "OK"}}

\* C12: every insert that succeeds (a new row or the re-insert of a ghost) and
\* every mutate_row that succeeds anchors its op_id: once the calls made have
\* returned, the anchor is nil if none succeeded and else the least op_id of
\* those that succeeded; and the anchor never rises.
C12_AnchorIsMinOfSuccessful ==
  /\ [](Quiescent =>
          IF SucceededOpIds = {}
            THEN anchor = NULL
            ELSE /\ anchor \in SucceededOpIds
                 /\ \A o \in SucceededOpIds : anchor <= o)
  /\ [][anchor # NULL => anchor' # NULL /\ anchor' <= anchor]_vars

\* The writers' calls on key k that have succeeded: they returned OK, or are
\* past their change of the index and on their way to return OK.
Succeeded(k) ==
  {r.op : r \in {x \in results : /\ x.op.kind \in {"insert", "mutate"}
                                  /\ x.op.key = k
                                  /\ x.status = "OK"}}
  \cup {op[t] : t \in {u \in Threads :
                         /\ pc[u] \in {"InsertAnchor", "InsertSlowMutators",
                                        "MutateAnchor", "MutateSlowMutators"}
                         /\ op[u].key = k}}

\* The node a successful mutate_row call `o` puts in the chain.
NodeOf(o) == [timestamp |-> o.timestamp, changelist |-> o.delta]

\* C15: of the mutate_row calls made on one key by the threads in any
\* interleaving, each that succeeds has exactly one node in the chain, and the
\* chain holds no UPDATE or DELETE node but theirs; a call's node goes to the
\* end of the chain at the step of its append; and no step reorders or
\* removes nodes, the chain before a step is a prefix of the chain after it.
C15_MutationsAppendedInOrder ==
  /\ [](\A i \in 1..Len(tree) :
          LET chain == tree[i].redo_head
              done == {o \in Succeeded(tree[i].key) : o.kind = "mutate"}
          IN /\ \A o \in done :
                  Cardinality({n \in 1..Len(chain) : chain[n] = NodeOf(o)}) = 1
             /\ \A n \in 1..Len(chain) :
                  chain[n].changelist.type \in {"UPDATE", "DELETE"}
                    => \E o \in done : chain[n] = NodeOf(o))
  /\ [][\A t \in Threads :
          pc[t] = "MutateCheck" /\ pc'[t] = "MutateAnchor"
            => \E i \in RowsOf(tree, op[t].key) :
                 tree'[i].redo_head = Append(tree[i].redo_head, NodeOf(op[t]))]_vars
  /\ [][\A i \in 1..Len(tree) :
          \E j \in RowsOf(tree', tree[i].key) :
            IsPrefix(tree[i].redo_head, tree'[j].redo_head)]_vars

\* Two mutate_row calls on one key are both past their append and not yet
\* returned; their nodes are in the chain, the node of the call that took the
\* position first before the other.
C15_Witness ==
  \E t1 \in Threads, t2 \in Threads :
    /\ t1 # t2
    /\ pc[t1] \in {"MutateAnchor", "MutateSlowMutators"}
    /\ pc[t2] \in {"MutateAnchor", "MutateSlowMutators"}
    /\ op[t1].key = op[t2].key
    /\ op[t1].timestamp < op[t2].timestamp
    /\ \E i \in RowsOf(tree, op[t1].key) :
         tree[i].redo_head = <<NodeOf(op[t1]), NodeOf(op[t2])>>

\* ------------------------------------------------------- the scans' claims

\* The last of them, by timestamp.
LastOf(ops) == CHOOSE o \in ops : \A q \in ops : q.timestamp <= o.timestamp

\* Key k is live by the history of the calls: the last call that succeeded on
\* it is not a DELETE.
LiveByHistory(k) ==
  /\ Succeeded(k) # {}
  /\ LET last == LastOf(Succeeded(k))
     IN last.kind = "mutate" => last.delta.type # "DELETE"

\* The body key k has by the history of the calls.
BodyByHistory(k) ==
  LET last == LastOf({o \in Succeeded(k) :
                        o.kind = "mutate" => o.delta.type # "DELETE"})
  IN IF last.kind = "insert" THEN last.body ELSE last.delta.body

\* The Iterator has been driven to its end: HasNext() is false.
ScanDone ==
  /\ it_state \in {"kScanning", "kFinished"}
  /\ it_state = "kFinished" \/ ~IsValid(tree, it_pos)

\* The rows of the scan that hold key k.
ScanRowsOf(k) == {n \in 1..Len(it_rows) : it_rows[n].key = k}

\* C13: whatever inserts, deletes and re-inserts a key has seen, the scan of
\* everything shows the key once: selected, with the body of the last
\* (re-)insert or update, if the last successful call on it is not a delete,
\* and unselected if it is a delete. CheckRowPresent reports the same state,
\* and an insert is accepted exactly when the key is a ghost or absent by that
\* history.
C13_ReinsertSeenByScanAndCheck ==
  /\ [](ScanDone /\ it_snap = CreateSnapshotIncludingAllTransactions
          /\ it_spec = NoBounds
          => \A k \in RowKeys :
               IF Succeeded(k) = {}
                 THEN ScanRowsOf(k) = {}
                 ELSE /\ Cardinality(ScanRowsOf(k)) = 1
                      /\ \A n \in ScanRowsOf(k) :
                           /\ it_rows[n].selected = LiveByHistory(k)
                           /\ it_rows[n].selected
                                => it_rows[n].body = BodyByHistory(k))
  /\ [][\A t \in Threads :
          pc[t] = "CheckRowPresent" /\ pc'[t] # "CheckRowPresent"
            => \E r \in results' :
                 /\ results' = results \cup {r}
                 /\ r.op = op[t]
                 /\ r.status = "OK"
                 /\ r.present = LiveByHistory(op[t].key)]_vars
  /\ [][\A t \in Threads :
          pc[t] = "InsertCheck" /\ pc'[t] # "InsertCheck"
            => (Returned(t, "AlreadyPresent") <=> LiveByHistory(op[t].key))]_vars

\* A key was inserted, deleted and re-inserted with another body; then
\* CheckRowPresent found it and the scan of everything has shown it, selected,
\* with the body of the re-insert.
C13_Witness ==
  /\ ScanDone
  /\ \E i \in 1..Len(tree) :
       /\ Len(tree[i].redo_head) = 2
       /\ tree[i].redo_head[1].changelist.type = "DELETE"
       /\ tree[i].redo_head[2].changelist.type = "REINSERT"
       /\ tree[i].redo_head[2].changelist.body # tree[i].body
       /\ \E n \in ScanRowsOf(tree[i].key) :
            /\ it_rows[n].selected
            /\ it_rows[n].body = tree[i].redo_head[2].changelist.body
       /\ \E r \in results :
            /\ r.op.kind = "check"
            /\ r.op.key = tree[i].key
            /\ r.op.seen = MaxOps
            /\ r.present = TRUE

\* Every call made so far is an insert that has returned, and no two of them
\* name the same key.
OnlyInsertsOfDistinctKeys ==
  /\ Quiescent
  /\ checks = 0
  /\ Cardinality(results) = clock
  /\ \A r \in results : r.op.kind = "insert"
  /\ \A r1 \in results, r2 \in results :
       r1.op.key = r2.op.key => r1 = r2

\* C14: after inserts of pairwise distinct keys, made by the threads in any
\* interleaving, every insert has returned OK, and a scan of everything begun
\* after them reports every inserted key once, selected, in key order.
C14_DistinctInsertsAllScanned ==
  OnlyInsertsOfDistinctKeys
    => /\ \A r \in results : r.status = "OK"
       /\ ScanDone
            => /\ Len(it_rows) = Cardinality(results)
               /\ \A n \in 1..Len(it_rows) : it_rows[n].selected
               /\ \A n1 \in 1..Len(it_rows), n2 \in 1..Len(it_rows) :
                    n1 < n2 => it_rows[n1].key < it_rows[n2].key
               /\ {it_rows[n].key : n \in 1..Len(it_rows)}
                    = {r.op.key : r \in results}

\* Two keys were inserted, the greater key by the call begun first, and the
\* scan, one row a block, has shown both in key order.
C14_Witness ==
  /\ OnlyInsertsOfDistinctKeys
  /\ ScanDone
  /\ Len(it_rows) = 2
  /\ it_last.nrows = 1
  /\ \E r1 \in results, r2 \in results :
       /\ r1.op.timestamp < r2.op.timestamp
       /\ r1.op.key > r2.op.key
       /\ it_rows[1].key = r2.op.key
       /\ it_rows[2].key = r1.op.key

\* The insert of a row is committed in the snapshot.
InsertCommitted(row, snap) == row.insertion_timestamp \in snap

\* The rows of the scan that were projected, in the order of the scan.
Projected == SelectSeq(it_rows, LAMBDA r : r.key # NULL)

\* C16: a scan driven to its end has returned (projected) exactly the rows
\* whose insert is committed in the snapshot and whose key k has
\* greatest lower bound <= k < least upper bound of the ranges of the spec,
\* each once and in key order; a bound the spec does not give does not limit.
C16_ScanWithinKeyRanges ==
  ScanDone
    => /\ \A n1 \in 1..Len(Projected), n2 \in 1..Len(Projected) :
            n1 < n2 => Projected[n1].key < Projected[n2].key
       /\ {Projected[n].key : n \in 1..Len(Projected)}
            = {tree[i].key : i \in
                 {j \in 1..Len(tree) :
                    /\ InsertCommitted(tree[j], it_snap)
                    /\ it_spec.lower # NULL => it_spec.lower <= tree[j].key
                    /\ it_spec.upper # NULL => tree[j].key < it_spec.upper}}

\* Both keys are in the index, their inserts committed in the snapshot; the
\* spec gives a lower bound and a greater upper bound, and the scan has
\* returned the key in the range and not the key below it.
C16_Witness ==
  /\ ScanDone
  /\ Len(tree) = MaxRowKey
  /\ \A i \in 1..Len(tree) : InsertCommitted(tree[i], it_snap)
  /\ it_spec.lower = 2
  /\ it_spec.upper = 3
  /\ Len(Projected) = 1
  /\ Projected[1].key = 2

\* The nodes of a chain that are committed in the snapshot, in chain order.
CommittedNodes(chain, snap) ==
  SelectSeq(chain, LAMBDA mut : mut.timestamp \in snap)

\* The body a row has once the nodes are applied to it in order.
BodyAfter(body, nodes) ==
  LET sets == {n \in 1..Len(nodes) : nodes[n].changelist.type # "DELETE"}
  IN IF sets = {} THEN body
     ELSE nodes[CHOOSE n \in sets : \A q \in sets : q <= n].changelist.body

\* The entry of the index the n-th row of the scan was fetched from: the scan
\* has fetched Len(it_rows) entries in a row and stands behind them.
FetchedFrom(n) == tree[it_pos - Len(it_rows) + n - 1]

\* C17: every row a scan at a snapshot has visited is reported unselected
\* with nothing copied or replayed if its insert is not committed in the
\* snapshot; otherwise it is the inserted row with the chain nodes committed
\* in the snapshot, and only those, applied in chain order, unselected exactly
\* if the last DELETE or REINSERT among them is a DELETE.
C17_ScanReplaysSnapshot ==
  it_state \in {"kScanning", "kFinished"}
    => \A n \in 1..Len(it_rows) :
         LET row == FetchedFrom(n)
             nodes == CommittedNodes(row.redo_head, it_snap)
         IN IF ~InsertCommitted(row, it_snap)
              THEN it_rows[n] = UnselectedRow
              ELSE /\ it_rows[n].key = row.key
                   /\ it_rows[n].selected = EndsLive(nodes)
                   /\ it_rows[n].body = BodyAfter(row.body, nodes)

\* A row was inserted, deleted and re-inserted with another body; the scan's
\* snapshot holds the insert and the DELETE and not the REINSERT, and the row
\* is reported unselected, with the body of the insert.
C17_Witness ==
  /\ ScanDone
  /\ \E i \in 1..Len(tree) :
       /\ Len(tree[i].redo_head) = 2
       /\ tree[i].redo_head[1].changelist.type = "DELETE"
       /\ tree[i].redo_head[2].changelist.type = "REINSERT"
       /\ tree[i].redo_head[2].changelist.body # tree[i].body
       /\ it_snap = {tree[i].insertion_timestamp,
                     tree[i].redo_head[1].timestamp}
       /\ \E n \in ScanRowsOf(tree[i].key) :
            /\ ~it_rows[n].selected
            /\ it_rows[n].body = tree[i].body

ThrottleBySpec(flag, bytes) ==
  IF flag = 0 \/ flag > bytes \div MiB
       \/ (flag = bytes \div MiB /\ bytes % MiB = 0)
    THEN -1
    ELSE (bytes \div 524288) - 2 * flag

\* C20: under every value of the flag and every footprint, SlowMutators sleeps
\* exactly if the flag is not 0 and footprint - flag * 2^20 > 0, and then for
\* floor((footprint - flag * 2^20) / 524288) microseconds: the threshold is
\* the exact product for every positive value of the flag.
C20_ThrottleSleepsByOverage ==
  \A r \in results :
    r.op.kind = "SlowMutators"
      => r.slept = LET us == ThrottleBySpec(r.op.flag, r.op.footprint)
                   IN IF us >= 0 THEN <<[us |-> us, holding |-> {}]>>
                      ELSE <<>>

\* C21: an Insert of a key the shard already holds replaces the entry: when
\* it returns, the old entry is out of the table and the list and has lost
\* the cache's reference (freed if no caller holds it, otherwise left with
\* the callers' references), the table holds the new entry for the key, so a
\* Lookup of the key finds the inserted value, and the replacement has not
\* changed the element count: it is the count before less the entries of
\* other keys the Insert evicted.
C21_InsertReplacesOldEntry ==
  [][InsertStep
       => LET e == Len(heap')
              s == Shard(heap'[e].hash)
              key == heap'[e].key
              old == table[s][key]
              evicted == {k \in Keys \ {key} :
                            table[s][k] # NULL /\ table'[s][k] = NULL}
          IN old # NULL
               => /\ \A k \in Keys : table'[s][k] # old
                  /\ \A i \in 1..Len(lru'[s]) : lru'[s][i] # old
                  /\ heap'[old].freed <=> handles[old] = 0
                  /\ ~heap'[old].freed => heap'[old].refs = handles[old]
                  /\ table'[s][key] = e
                  /\ ~heap'[e].freed
                  /\ elems'[s] = elems[s] - Cardinality(evicted)]_vars

\* The entry at position p of the index is committed in the scan's snapshot
\* and its key is at or above the least upper bound of the scan's spec.
CommittedPastUpper(p) ==
  /\ it_spec.upper # NULL
  /\ InsertCommitted(tree[p], it_snap)
  /\ tree[p].key >= it_spec.upper

\* The steps state_ may take.
StateMoves ==
  {<<"none", "kUninitialized">>, <<"kUninitialized", "kScanning">>,
   <<"kUninitialized", "kFinished">>, <<"kScanning", "kFinished">>,
   <<"kUninitialized", "none">>, <<"kScanning", "none">>,
   <<"kFinished", "none">>}

\* C22: the state of an Iterator only moves forward, from uninitialized to
\* scanning or finished and from scanning to finished. Init ends finished
\* exactly if the spec has a lower bound and no key of the index is at or
\* above the greatest of them. NextBlock moves from scanning to finished only
\* at a committed row with key at or above the upper bound; called at such a
\* row it returns no row and ends finished (a block of no capacity looks at
\* no row and changes nothing), and it passes no such row. On a finished
\* Iterator it returns no row and leaves it finished; and it returns NotFound
\* exactly when the index iterator is invalid when it is called.
C22_IteratorStateMovesForward ==
  [][/\ it_state' # it_state => <<it_state, it_state'>> \in StateMoves
     /\ (it_state = "kUninitialized" /\ it_state' # "none")
          => (it_state' = "kFinished"
                <=> /\ it_spec'.lower # NULL
                    /\ \A i \in 1..Len(tree) : tree[i].key < it_spec'.lower)
     /\ (it_state \in {"kScanning", "kFinished"} /\ it_state' # "none")
          => /\ it_last'.call = "NextBlock"
             /\ it_last'.status = "NotFound" <=> ~IsValid(tree, it_pos)
             /\ it_last'.status = "NotFound"
                  => it_last'.nrows = 0 /\ it_rows' = it_rows
             /\ it_state = "kFinished"
                  => /\ it_state' = "kFinished"
                     /\ it_last'.nrows = 0
                     /\ it_rows' = it_rows
             /\ it_state = "kScanning"
                  => /\ it_state' = "kFinished"
                          => /\ IsValid(tree, it_pos')
                             /\ CommittedPastUpper(it_pos')
                             /\ it_last'.status = "OK"
                     /\ (IsValid(tree, it_pos) /\ CommittedPastUpper(it_pos))
                          => \/ it_state' = "kFinished"
                             \/ it_last'.nrows = 0 /\ it_pos' = it_pos
                     /\ (IsValid(tree, it_pos) /\ CommittedPastUpper(it_pos))
                          => it_rows' = it_rows
                     /\ \A p \in it_pos..(it_pos' - 1) :
                          ~CommittedPastUpper(p)
                     /\ it_last'.nrows = Len(it_rows') - Len(it_rows)]_vars

\* A scan with an upper bound has returned a row and then finished at a
\* committed row at the bound, and the NextBlock after that returned OK and
\* no row.
C22_Witness ==
  /\ it_state = "kFinished"
  /\ it_spec.upper # NULL
  /\ Len(it_rows) = 1
  /\ it_rows[1].selected
  /\ IsValid(tree, it_pos)
  /\ CommittedPastUpper(it_pos)
  /\ it_last = [call |-> "NextBlock", status |-> "OK", nrows |-> 0]

\* C23: in every reachable state the refs of an entry that is not freed is
\* one for the cache, if the entry is in the table or the list, plus the
\* handles callers hold on it, and an entry is freed exactly when nothing
\* holds it; refs is 2 when Insert returns, a Lookup hit adds one and a
\* Release takes one.
C23_RefsBalanced ==
  /\ [](\A e \in Allocated :
          /\ ~heap[e].freed => heap[e].refs = Holders(e)
          /\ heap[e].freed <=> Holders(e) = 0)
  /\ [][\A e \in Allocated :
          /\ handles'[e] = handles[e] + 1
               => heap'[e].refs = heap[e].refs + 1
          /\ handles'[e] = handles[e] - 1
               => IF heap[e].refs = 1 THEN heap'[e].freed
                  ELSE heap'[e].refs = heap[e].refs - 1]_vars
  /\ [][InsertStep => heap'[Len(heap')].refs = 2]_vars

\* The statuses of a write that failed.
Failed == {"AlreadyPresent", "NotFound"}

\* C24: a write that fails changes nothing: no step of Insert or MutateRow
\* before its check changes the index, a chain or the anchor, and the step in
\* which Insert returns AlreadyPresent or MutateRow returns NotFound leaves
\* the index, every chain and the anchor as they are, returns with no
\* mutated store recorded and mrs_consulted not incremented, and has not run
\* the throttle check (no sleep, and has_logged_throttling_ untouched).
C24_FailedWriteChangesNothing ==
  [][\A t \in Threads :
       /\ (pc[t] = "idle" /\ pc'[t] \in {"InsertCheck", "MutateCheck"})
            => tree' = tree /\ anchor' = anchor /\ stats'[t] = 0
                 /\ result'[t] = <<>>
       /\ (pc[t] \in {"InsertCheck", "MutateCheck"} /\ pc'[t] = "idle")
            => \E r \in results' :
                 /\ results' = results \cup {r}
                 /\ r \notin results
                 /\ r.op = op[t]
                 /\ r.status \in Failed
                      => /\ r.status = IF pc[t] = "InsertCheck"
                                         THEN "AlreadyPresent" ELSE "NotFound"
                         /\ tree' = tree
                         /\ anchor' = anchor
                         /\ r.mutated_stores = <<>>
                         /\ r.mrs_consulted = 0
                         /\ r.slept = <<>>
                         /\ has_logged_throttling_' = has_logged_throttling_
       /\ (pc[t] \notin {"InsertCheck", "MutateCheck"} /\ pc'[t] = "idle"
              /\ pc[t] # "idle")
            => \A r \in results' \ results : r.status \notin Failed]_vars

\* With the throttle on and an op_id anchored, an insert of a live key has
\* returned AlreadyPresent and a MutateRow of a key not in the index has
\* returned NotFound, each carrying an op_id below the anchor; the index
\* holds the one row of the insert that succeeded and slept.
C24_Witness ==
  /\ Quiescent
  /\ throttle_mb # 0
  /\ Len(tree) = 1
  /\ tree[1].redo_head = <<>>
  /\ anchor = MaxOpId
  /\ \E r \in results : r.status = "OK" /\ r.slept # <<>>
  /\ \E r \in results :
       r.status = "AlreadyPresent" /\ r.op.op_id < anchor /\ r.slept = <<>>
  /\ \E r \in results :
       r.status = "NotFound" /\ r.op.op_id < anchor /\ r.slept = <<>>

====
